---- MODULE Spec2Model ----
(***************************************************************************)
(* African Nations League backend (src/backend/app.py).                    *)
(*                                                                         *)
(* Three parts of the program are modelled:                                *)
(*   - simulate_match, as a step machine over its random draws (goal       *)
(*     counts, extra time, penalty shootout, returned result);             *)
(*   - simulate_match in detailed mode (timeline loop, events added after  *)
(*     it, commentary);                                                    *)
(*   - the match store and the request handlers that mutate it             *)
(*     (api_create_team, api_create_tournament, api_reset_tournament,      *)
(*     simulate_match_route, play_match, _progress_tournament_if_ready).   *)
(*                                                                         *)
(* Numbers that are floats in the program are kept as scaled integers:     *)
(* goal expectations and probabilities in hundredths.                      *)
(***************************************************************************)
EXTENDS Integers, Sequences, FiniteSets, TLC

VARIABLES
    \* ---- simulate_match (app.py 103-285) ----
    sim_pc,             \* position inside simulate_match
    team1_rating,       \* team1_data['rating']
    team2_rating,       \* team2_data['rating']
    knockout,           \* the knockout argument
    base_goals_team1,   \* hundredths of a goal
    base_goals_team2,
    team1_goals,
    team2_goals,
    used_extra_time,
    extra1,
    extra2,
    decided_by,
    penalty_score,      \* a string, kept as a sequence of characters
    t1,
    t2,
    shots,
    sim_result,         \* <<>> until simulate_match returns, then <<result dict>>
    detailed,           \* the detailed argument
    current_minute,
    goals_scored,       \* <<tally of team1, tally of team2>>
    match_events,
    goal_scorers,
    ai_commentary,
    match_preview,
    \* ---- Firestore collections and requests ----
    teams,              \* 'teams' collection, in stream order
    matches,            \* 'matches' collection: a set of match documents
    clock,              \* datetime.now(), as a tick counter
    reqs,               \* in-flight simulation requests, per worker
    started,            \* simulation requests started so far (interleaved runs)
    \* ---- generate_squad / calculate_team_rating (app.py 52-88) ----
    squad_pc,           \* position inside the squad generation
    squad,              \* the list of player dicts
    team_rating,        \* <<>> until calculate_team_rating returns, then
                        \* <<rating in hundredths>>
    \* ---- send_match_completion_email (email_service.py 18-105) ----
    notification        \* <<>> until the call returns, then <<its record>>

\* the variables of the detailed timeline and of the commentary
detailVars == <<detailed, current_minute, goals_scored, match_events,
                goal_scorers, ai_commentary, match_preview>>

simVars == <<sim_pc, team1_rating, team2_rating, knockout, base_goals_team1,
             base_goals_team2, team1_goals, team2_goals, used_extra_time,
             extra1, extra2, decided_by, penalty_score, t1, t2, shots,
             sim_result, detailed, current_minute, goals_scored, match_events,
             goal_scorers, ai_commentary, match_preview>>

storeVars == <<teams, matches, clock, reqs, started>>

\* the variables outside simulate_match and the store
otherVars == <<squad_pc, squad, team_rating, notification>>

vars == <<sim_pc, team1_rating, team2_rating, knockout, base_goals_team1,
          base_goals_team2, team1_goals, team2_goals, used_extra_time,
          extra1, extra2, decided_by, penalty_score, t1, t2, shots,
          sim_result, detailed, current_minute, goals_scored, match_events,
          goal_scorers, ai_commentary, match_preview,
          teams, matches, clock, reqs, started,
          squad_pc, squad, team_rating, notification>>

--------------------------------------------------------------------------
(* Bounds of the model *)

\* round(random.gauss(..)) is drawn from -GaussBelow .. GaussAbove
GaussBelow == 1
GaussAbove == 8
\* in sudden death, a round in which both sides score is explored only
\* while the tallies are below MaxPen
MaxPen == 10
\* countries that may register
MaxTeams == 9
\* datetime.now() ticks explored
MaxClock == 11
\* simulation requests started in the interleaved specification
MaxRequests == 4

Max(a, b) == IF a >= b THEN a ELSE b
Min(a, b) == IF a <= b THEN a ELSE b

\* Python's None for decided_by
None == "None"
\* None where a country is expected: (m.get('result') or {}).get('winner')
NoCountry == -1
\* sudden-death rounds explored when a handler calls simulate_match
RouteSuddenRounds == 1
\* penalty_score = None; None and "" are both falsy at app.py 275
NoPenaltyScore == <<>>

\* team ratings explored (generated squads rate between 70 and 95)
RatingValues == {70, 95}
\* random.uniform(-1, 1), in hundredths
UniformSamples == {-100, 100}
GaussRounded == (0 - GaussBelow) .. GaussAbove

\* the 'country' of team1_data and team2_data in the simulate_match machine
Team1Country == 1
Team2Country == 2
\* the winner value 'Draw'
Draw == 0

--------------------------------------------------------------------------
(* Strings: str(int), str.split('-'), int(str) *)

DigitChars == <<"0", "1", "2", "3", "4", "5", "6", "7", "8", "9">>

RECURSIVE FormatInt(_)
\* f"{n}" for n >= 0
FormatInt(n) ==
    IF n < 10 THEN <<DigitChars[n + 1]>>
    ELSE FormatInt(n \div 10) \o <<DigitChars[(n % 10) + 1]>>

DigitValue(c) == CHOOSE d \in 0..9 : DigitChars[d + 1] = c

RECURSIVE ParseInt(_)
\* int(s) for a non-empty string of digits
ParseInt(s) ==
    IF Len(s) = 1 THEN DigitValue(s[1])
    ELSE 10 * ParseInt(SubSeq(s, 1, Len(s) - 1)) + DigitValue(s[Len(s)])

RECURSIVE SplitDash(_)
\* s.split('-')
SplitDash(s) ==
    IF \A i \in 1..Len(s) : s[i] # "-" THEN <<s>>
    ELSE LET k == CHOOSE i \in 1..Len(s) :
                      s[i] = "-" /\ \A j \in 1..(i - 1) : s[j] # "-"
         IN <<SubSeq(s, 1, k - 1)>> \o SplitDash(SubSeq(s, k + 1, Len(s)))

FormatPenaltyScoreSwapped(a, b) == FormatInt(b) \o <<"-">> \o FormatInt(a)

\* penalty_score = f"{t1}-{t2}"
FormatPenaltyScore(a, b) == FormatInt(a) \o <<"-">> \o FormatInt(b)

--------------------------------------------------------------------------
(* simulate_match: pure parts *)

\* max(0.5, 1.5 + rating_diff + random.uniform(-1, 1)), in hundredths;
\* rating_diff = (r_own - r_other) / 20
BaseGoals(r_own, r_other, u) == Max(50, 150 + 5 * (r_own - r_other) + u)

\* max(0.2, base_goals * 0.3), in hundredths (floor of the scaled value)
ExtraTimeLambda(base) == Max(20, (base * 3) \div 10)

poisson_approx_unclamped(lambda_param, gauss_rounded) ==
    IF lambda_param <= 0 THEN 0 ELSE gauss_rounded

\* poisson_approx, given the value of round(random.gauss(..))
poisson_approx(lambda_param, gauss_rounded) ==
    IF lambda_param <= 0 THEN 0 ELSE Max(0, gauss_rounded)

RegulationCap == 7
ExtraTimeCap == 3
InitialKicks == 5

NeedsExtraTimeAnyTie(ko, g1, g2) == g1 = g2

\* if knockout and team1_goals == team2_goals
NeedsExtraTime(ko, g1, g2) == ko /\ g1 = g2

\* p = max(0.6, min(0.9, 0.75 + diff)), in hundredths; diff = (r_own - r_other) / 100
PenaltyProbability(r_own, r_other) == Max(60, Min(90, 75 + (r_own - r_other)))

\* random.random() < p, with random.random() in [0, 1): the outcomes that can occur
AttemptOutcomes(p) == {b \in BOOLEAN : (b /\ p > 0) \/ (~b /\ p < 100)}

KickOutcomesSharedDraw(p1, p2) == {<<r < p1, r < p2>> : r \in 0..99}

\* one round of the shootout: two independent draws
KickOutcomes(p1, p2) == AttemptOutcomes(p1) \X AttemptOutcomes(p2)

WinnerKnockoutAlways(c1, c2, g1, g2, ps, ko) ==
    IF g1 > g2 THEN c1
    ELSE IF g2 > g1 THEN c2
    ELSE IF ps # <<>>
            /\ ParseInt(SplitDash(ps)[1]) > ParseInt(SplitDash(ps)[2])
         THEN c1 ELSE c2

WinnerGoalsOnly(c1, c2, g1, g2, ps, ko) ==
    IF g1 > g2 THEN c1 ELSE IF g2 > g1 THEN c2 ELSE Draw

\* the 'winner' entry of the returned dict
Winner(c1, c2, g1, g2, ps, ko) ==
    IF g1 > g2 THEN c1
    ELSE IF g2 > g1 THEN c2
    ELSE IF ko
         THEN IF ps # <<>>
                 /\ ParseInt(SplitDash(ps)[1]) > ParseInt(SplitDash(ps)[2])
              THEN c1 ELSE c2
         ELSE Draw

\* lines 265-285: the returned dict, without 'simulated_at' and the player
\* names
DetailedResultDict(c1, c2, g1, g2, db, ps, et, ko, events, scorers, commentary, preview) ==
    [team1 |-> c1, team2 |-> c2,
     score |-> FormatPenaltyScore(g1, g2),
     team1_goals |-> g1, team2_goals |-> g2,
     winner |-> Winner(c1, c2, g1, g2, ps, ko),
     events |-> events, goal_scorers |-> scorers,
     commentary |-> commentary, match_preview |-> preview,
     decided_by |-> db, penalty_score |-> ps, extra_time |-> et]

\* random.randint(5, 85) at 185 and 189: the two ends
ScorerMinuteLow == 5
ScorerMinuteHigh == 85
ScorerMinutes == {ScorerMinuteLow, ScorerMinuteHigh}

\* minutes explored: the first MaxScorerDraws draws of a call take either
\* end, the draws after them the low end
MaxScorerDraws == 1

\* the minutes drawn by n successive calls of random.randint(5, 85)
ScorerMinuteDraws(n) ==
    LET k == IF n < MaxScorerDraws THEN n ELSE MaxScorerDraws
    IN { [i \in 1..n |-> IF i <= k THEN d[i] ELSE ScorerMinuteLow] :
           d \in [1..k -> ScorerMinutes] }

BasicGoalScorersTeam1Only(c1, c2, g1, g2, minutes) ==
    [i \in 1..g1 |-> [minute |-> minutes[i], team |-> c1]]

\* lines 183-190: g1 entries of team c1, then g2 entries of team c2, each
\* with the minute drawn for it (the player name is left out)
BasicGoalScorers(c1, c2, g1, g2, minutes) ==
    [i \in 1..(g1 + g2) |->
        [minute |-> minutes[i], team |-> IF i <= g1 THEN c1 ELSE c2]]

--------------------------------------------------------------------------
(* simulate_match: the step machine *)

\* lines 114-115, 250-251 and the detailed argument left False
DetailOff ==
    /\ detailed = FALSE
    /\ current_minute = 0
    /\ goals_scored = <<0, 0>>
    /\ match_events = <<>>
    /\ goal_scorers = <<>>
    /\ ai_commentary = "empty"
    /\ match_preview = ""

SimOff ==
    /\ sim_pc = "off"
    /\ team1_rating = 0 /\ team2_rating = 0
    /\ knockout = FALSE
    /\ base_goals_team1 = 0 /\ base_goals_team2 = 0
    /\ team1_goals = 0 /\ team2_goals = 0
    /\ used_extra_time = FALSE
    /\ extra1 = 0 /\ extra2 = 0
    /\ decided_by = None
    /\ penalty_score = NoPenaltyScore
    /\ t1 = 0 /\ t2 = 0 /\ shots = 0
    /\ sim_result = <<>>
    /\ DetailOff

\* two requests may be in flight at once
Workers == {1, 2}

IdleRequest ==
    [pc |-> "idle", match_id |-> 0, winner |-> NoCountry,
     status_read |-> "none", email |-> "none", plan |-> <<>>]

StoreEmpty ==
    /\ teams = <<>>
    /\ matches = {}
    /\ clock = 0
    /\ reqs = [p \in Workers |-> IdleRequest]
    /\ started = 0

\* no squad is being generated, no notification has been sent
OtherOff ==
    /\ squad_pc = "off"
    /\ squad = <<>>
    /\ team_rating = <<>>
    /\ notification = <<>>

\* a call simulate_match(team1_data, team2_data, detailed, knockout)
SimInit ==
    /\ sim_pc = "start"
    /\ team1_rating \in RatingValues
    /\ team2_rating \in RatingValues
    /\ knockout \in BOOLEAN
    /\ base_goals_team1 = 0 /\ base_goals_team2 = 0
    /\ team1_goals = 0 /\ team2_goals = 0
    /\ used_extra_time = FALSE
    /\ extra1 = 0 /\ extra2 = 0
    /\ decided_by = None
    /\ penalty_score = NoPenaltyScore
    /\ t1 = 0 /\ t2 = 0 /\ shots = 0
    /\ sim_result = <<>>
    /\ DetailOff
    /\ StoreEmpty
    /\ OtherOff

\* lines 104-112: base expectations and regulation goal counts
SimRegulation ==
    /\ sim_pc = "start"
    /\ \E u1 \in UniformSamples, u2 \in UniformSamples,
          s1 \in GaussRounded, s2 \in GaussRounded :
          LET b1 == BaseGoals(team1_rating, team2_rating, u1)
              b2 == BaseGoals(team2_rating, team1_rating, u2)
          IN /\ base_goals_team1' = b1
             /\ base_goals_team2' = b2
             /\ team1_goals' = Min(RegulationCap, poisson_approx(b1, s1))
             /\ team2_goals' = Min(RegulationCap, poisson_approx(b2, s2))
    /\ sim_pc' = "scorers"
    /\ UNCHANGED <<team1_rating, team2_rating, knockout, used_extra_time,
                   extra1, extra2, decided_by, penalty_score, t1, t2, shots,
                   sim_result>>
    /\ UNCHANGED storeVars
    /\ UNCHANGED otherVars
    /\ UNCHANGED detailVars

\* lines 181-190 with detailed False: one entry per goal of the regulation
\* tally, team1's entries first, each with a minute drawn for it
SimGoalScorers ==
    /\ sim_pc = "scorers"
    /\ \E minutes \in ScorerMinuteDraws(team1_goals + team2_goals) :
          goal_scorers' = BasicGoalScorers(Team1Country, Team2Country,
                                           team1_goals, team2_goals, minutes)
    /\ sim_pc' = "knockout"
    /\ UNCHANGED <<team1_rating, team2_rating, knockout, base_goals_team1,
                   base_goals_team2, team1_goals, team2_goals,
                   used_extra_time, extra1, extra2, decided_by, penalty_score,
                   t1, t2, shots, sim_result>>
    /\ UNCHANGED <<detailed, current_minute, goals_scored, match_events,
                   ai_commentary, match_preview>>
    /\ UNCHANGED storeVars
    /\ UNCHANGED otherVars

\* line 197 false: no extra time
SimNoExtraTime ==
    /\ sim_pc = "knockout"
    /\ ~NeedsExtraTime(knockout, team1_goals, team2_goals)
    /\ sim_pc' = "return"
    /\ UNCHANGED <<team1_rating, team2_rating, knockout, base_goals_team1,
                   base_goals_team2, team1_goals, team2_goals,
                   used_extra_time, extra1, extra2, decided_by, penalty_score,
                   t1, t2, shots, sim_result>>
    /\ UNCHANGED storeVars
    /\ UNCHANGED otherVars
    /\ UNCHANGED detailVars

\* lines 197-229: extra time, then either decided or the shootout begins
SimExtraTime ==
    /\ sim_pc = "knockout"
    /\ NeedsExtraTime(knockout, team1_goals, team2_goals)
    /\ used_extra_time' = TRUE
    /\ \E s1 \in GaussRounded, s2 \in GaussRounded :
          /\ extra1' = Min(ExtraTimeCap,
                           poisson_approx(ExtraTimeLambda(base_goals_team1), s1))
          /\ extra2' = Min(ExtraTimeCap,
                           poisson_approx(ExtraTimeLambda(base_goals_team2), s2))
    /\ team1_goals' = team1_goals + extra1'
    /\ team2_goals' = team2_goals + extra2'
    /\ IF team1_goals' # team2_goals'
       THEN /\ decided_by' = "extra_time"
            /\ sim_pc' = "return"
       ELSE /\ decided_by' = "penalties"
            /\ sim_pc' = "initial"
    /\ UNCHANGED <<team1_rating, team2_rating, knockout, base_goals_team1,
                   base_goals_team2, penalty_score, t1, t2, shots, sim_result>>
    /\ UNCHANGED storeVars
    /\ UNCHANGED otherVars
    /\ UNCHANGED detailVars

SimInitialKickEarlyStop ==
    /\ sim_pc = "initial"
    /\ shots < InitialKicks
    /\ shots' = shots + 1
    /\ \E k \in KickOutcomes(PenaltyProbability(team1_rating, team2_rating),
                             PenaltyProbability(team2_rating, team1_rating)) :
          /\ t1' = IF k[1] THEN t1 + 1 ELSE t1
          /\ t2' = IF k[2] THEN t2 + 1 ELSE t2
    /\ sim_pc' = IF \/ shots' = InitialKicks
                    \/ t1' > t2' + (InitialKicks - shots')
                    \/ t2' > t1' + (InitialKicks - shots')
                 THEN "sudden" ELSE "initial"
    /\ UNCHANGED <<team1_rating, team2_rating, knockout, base_goals_team1,
                   base_goals_team2, team1_goals, team2_goals,
                   used_extra_time, extra1, extra2, decided_by, penalty_score,
                   sim_result>>
    /\ UNCHANGED storeVars
    /\ UNCHANGED otherVars
    /\ UNCHANGED detailVars

\* lines 232-237: one iteration of "for i in range(5)"
SimInitialKick ==
    /\ sim_pc = "initial"
    /\ shots < InitialKicks
    /\ shots' = shots + 1
    /\ \E k \in KickOutcomes(PenaltyProbability(team1_rating, team2_rating),
                             PenaltyProbability(team2_rating, team1_rating)) :
          /\ t1' = IF k[1] THEN t1 + 1 ELSE t1
          /\ t2' = IF k[2] THEN t2 + 1 ELSE t2
    /\ sim_pc' = IF shots' = InitialKicks THEN "sudden" ELSE "initial"
    /\ UNCHANGED <<team1_rating, team2_rating, knockout, base_goals_team1,
                   base_goals_team2, team1_goals, team2_goals,
                   used_extra_time, extra1, extra2, decided_by, penalty_score,
                   sim_result>>
    /\ UNCHANGED storeVars
    /\ UNCHANGED otherVars
    /\ UNCHANGED detailVars

\* lines 239-243: one iteration of "while t1 == t2" with outcome k
SuddenDeathRound(k) ==
    /\ sim_pc = "sudden"
    /\ t1 = t2
    /\ k \in KickOutcomes(PenaltyProbability(team1_rating, team2_rating),
                          PenaltyProbability(team2_rating, team1_rating))
    /\ (k[1] /\ k[2]) => t1 < MaxPen
    /\ t1' = IF k[1] THEN t1 + 1 ELSE t1
    /\ t2' = IF k[2] THEN t2 + 1 ELSE t2
    /\ UNCHANGED <<sim_pc, team1_rating, team2_rating, knockout,
                   base_goals_team1, base_goals_team2, team1_goals,
                   team2_goals, used_extra_time, extra1, extra2, decided_by,
                   penalty_score, shots, sim_result>>
    /\ UNCHANGED storeVars
    /\ UNCHANGED otherVars
    /\ UNCHANGED detailVars

\* a sudden-death round that leaves the tallies level
SimSuddenDeathLevel ==
    \E k \in BOOLEAN \X BOOLEAN : k[1] = k[2] /\ SuddenDeathRound(k)

\* a sudden-death round in which exactly one side scores
SimSuddenDeathDecisive ==
    \E k \in BOOLEAN \X BOOLEAN : k[1] # k[2] /\ SuddenDeathRound(k)

\* line 244: the loop has ended, the score string is built
SimPenaltyScore ==
    /\ sim_pc = "sudden"
    /\ t1 # t2
    /\ penalty_score' = FormatPenaltyScore(t1, t2)
    /\ sim_pc' = "return"
    /\ UNCHANGED <<team1_rating, team2_rating, knockout, base_goals_team1,
                   base_goals_team2, team1_goals, team2_goals,
                   used_extra_time, extra1, extra2, decided_by, t1, t2, shots,
                   sim_result>>
    /\ UNCHANGED storeVars
    /\ UNCHANGED otherVars
    /\ UNCHANGED detailVars

\* lines 265-285: the returned dict
SimReturn ==
    /\ sim_pc = "return"
    /\ sim_result' = <<DetailedResultDict(
                           Team1Country, Team2Country, team1_goals,
                           team2_goals, decided_by, penalty_score,
                           used_extra_time, knockout, match_events,
                           goal_scorers, ai_commentary, match_preview)>>
    /\ sim_pc' = "done"
    /\ UNCHANGED <<team1_rating, team2_rating, knockout, base_goals_team1,
                   base_goals_team2, team1_goals, team2_goals,
                   used_extra_time, extra1, extra2, decided_by, penalty_score,
                   t1, t2, shots>>
    /\ UNCHANGED storeVars
    /\ UNCHANGED otherVars
    /\ UNCHANGED detailVars

SimNext ==
    \/ SimRegulation
    \/ SimGoalScorers
    \/ SimNoExtraTime
    \/ SimExtraTime
    \/ SimInitialKick
    \/ SimSuddenDeathLevel
    \/ SimSuddenDeathDecisive
    \/ SimPenaltyScore
    \/ SimReturn

\* simulate_match over all its draws
SimSpec == SimInit /\ [][SimNext]_vars

\* the same, with the scheduling the interpreter gives (the call keeps
\* running) and the fairness of the random source: in sudden death a round
\* in which exactly one side scores, when it can occur, eventually occurs
FairSimSpec ==
    /\ SimInit
    /\ [][SimNext]_vars
    /\ WF_vars(SimNext)
    /\ WF_vars(SimSuddenDeathDecisive)

--------------------------------------------------------------------------
(* simulate_match as the handlers call it: the winners it can return *)

RECURSIVE ShootoutScores(_, _, _, _, _, _)
\* lines 229-243 over every sequence of kicks: the final tallies <<t1, t2>>
\* reachable from tallies a, b after n initial rounds, with at most `more`
\* further sudden-death rounds
ShootoutScores(p1, p2, a, b, n, more) ==
    LET after(k) == <<IF k[1] THEN a + 1 ELSE a, IF k[2] THEN b + 1 ELSE b>>
    IN IF n < InitialKicks
       THEN UNION {ShootoutScores(p1, p2, after(k)[1], after(k)[2], n + 1, more) :
                       k \in KickOutcomes(p1, p2)}
       ELSE IF a # b THEN {<<a, b>>}
       ELSE IF more = 0 THEN {}
       ELSE UNION {ShootoutScores(p1, p2, after(k)[1], after(k)[2], n, more - 1) :
                       k \in KickOutcomes(p1, p2)}

\* the winners simulate_match(team1, team2, detailed, knockout) can return,
\* over all its draws (the 'winner' entry does not depend on detailed)
SimulatedWinners(c1, r1, c2, r2, ko) ==
    LET scores == ShootoutScores(PenaltyProbability(r1, r2),
                                 PenaltyProbability(r2, r1),
                                 0, 0, 0, RouteSuddenRounds)
        afterExtra(g1, g2) ==
            IF g1 # g2
            THEN {Winner(c1, c2, g1, g2, NoPenaltyScore, ko)}
            ELSE {Winner(c1, c2, g1, g2, FormatPenaltyScore(sc[1], sc[2]), ko) :
                      sc \in scores}
        afterRegulation(b1, b2, g1, g2) ==
            IF NeedsExtraTime(ko, g1, g2)
            THEN UNION {afterExtra(
                            g1 + Min(ExtraTimeCap,
                                     poisson_approx(ExtraTimeLambda(b1), x1)),
                            g2 + Min(ExtraTimeCap,
                                     poisson_approx(ExtraTimeLambda(b2), x2))) :
                            x1 \in GaussRounded, x2 \in GaussRounded}
            ELSE {Winner(c1, c2, g1, g2, NoPenaltyScore, ko)}
    IN UNION {afterRegulation(
                  BaseGoals(r1, r2, d[1]), BaseGoals(r2, r1, d[2]),
                  Min(RegulationCap, poisson_approx(BaseGoals(r1, r2, d[1]), d[3])),
                  Min(RegulationCap, poisson_approx(BaseGoals(r2, r1, d[2]), d[4]))) :
                  d \in UniformSamples \X UniformSamples
                        \X GaussRounded \X GaussRounded}

\* the same for any ratings of the two teams, as Team1Country / Team2Country / Draw
WinnerSides ==
    [ko \in BOOLEAN |->
        UNION {SimulatedWinners(Team1Country, r[1], Team2Country, r[2], ko) :
                   r \in RatingValues \X RatingValues}]

--------------------------------------------------------------------------
(* simulate_match(.., detailed=True, ..): the timeline, the events added   *)
(* after it, and the commentary. An event is kept as minute, type and team *)
(* (the player named in it is left out).                                   *)

\* round(random.gauss(..)) explored in the detailed call: -GaussBelow .. DetailedGaussAbove
DetailedGaussAbove == 1
\* timeline events explored: an event roll below 0.4 is drawn only while
\* the timeline holds fewer than MaxEvents events
MaxEvents == 1

DetailedGauss == (0 - GaussBelow) .. DetailedGaussAbove
\* random.uniform(-1, 1) explored in the detailed call, in hundredths
DetailedUniform == {0}
\* random.randint(2, 10): with steps of 8 the loop leaves through the break
MinuteSteps == {8}
\* random.random() at line 131, in hundredths: one value per branch
EventRolls == {5, 15, 25, 35, 50}
\* random.randint(91, 120)
ExtraTimeMinutes == {91, 120}

RegulationMinutes == 90
PenaltiesMinute == 120
\* the 'team' of the penalties marker, 'Both'
Both == 3

EventTypeNoTarget(event_roll, tally, target) ==
    IF event_roll < 10 THEN "goal"
    ELSE IF event_roll < 20 THEN "save"
    ELSE IF event_roll < 30 THEN "chance"
    ELSE IF event_roll < 40 THEN "foul"
    ELSE "none"

\* the if / elif chain at 133-177: the event of one phase of play
EventType(event_roll, tally, target) ==
    IF event_roll < 10 /\ tally < target THEN "goal"
    ELSE IF event_roll < 20 THEN "save"
    ELSE IF event_roll < 30 THEN "chance"
    ELSE IF event_roll < 40 THEN "foul"
    ELSE "none"

\* the while condition at 122
TimelineContinues(minute, scored, g1, g2) ==
    minute < RegulationMinutes /\ (scored[1] < g1 \/ scored[2] < g2)

\* list.insert keeping the order of equal minutes
InsertByMinute(sorted, x) ==
    LET k == Cardinality({i \in 1..Len(sorted) : sorted[i].minute <= x.minute})
    IN SubSeq(sorted, 1, k) \o <<x>> \o SubSeq(sorted, k + 1, Len(sorted))

RECURSIVE SortedByMinute(_)
\* match_events.sort(key=lambda x: x['minute'])
SortedByMinute(seq) ==
    IF seq = <<>> THEN <<>>
    ELSE InsertByMinute(SortedByMinute(SubSeq(seq, 1, Len(seq) - 1)),
                        seq[Len(seq)])

\* the goal events appended at 205-208 (210-213) for the minutes drawn
ExtraTimeGoalEvents(team, minutes) ==
    [i \in 1..Len(minutes) |->
        [minute |-> minutes[i], type |-> "goal", team |-> team]]

\* the goal_scorers entries appended at 209 (214)
ExtraTimeGoalScorers(team, minutes) ==
    [i \in 1..Len(minutes) |-> [minute |-> minutes[i], team |-> team]]

\* the event appended at 248
PenaltiesMarker == [minute |-> PenaltiesMinute, type |-> "penalties", team |-> Both]

\* what a call of the commentary generator can do: return generated text,
\* return its fallback text (no model, or the model threw), or raise
GenerateOutcomes(model_present) ==
    IF model_present THEN {"generated", "fallback", "raises"}
    ELSE {"fallback", "raises"}

\* lines 255-263: <<match_preview, ai_commentary>> after the try block
CommentaryResult(preview, live) ==
    IF preview = "raises" THEN <<"", "unavailable">>
    ELSE IF live = "raises" THEN <<preview, "unavailable">>
    ELSE <<preview, live>>

\* lines 225-243 for each pair of ratings: the final tallies of the shootout
DetailedShootoutScores ==
    [r \in RatingValues \X RatingValues |->
        ShootoutScores(PenaltyProbability(r[1], r[2]),
                       PenaltyProbability(r[2], r[1]),
                       0, 0, 0, RouteSuddenRounds)]

\* a call simulate_match(team1_data, team2_data, True, knockout)
DetailedInit ==
    /\ sim_pc = "start"
    /\ team1_rating \in RatingValues
    /\ team2_rating \in RatingValues
    /\ knockout \in BOOLEAN
    /\ base_goals_team1 = 0 /\ base_goals_team2 = 0
    /\ team1_goals = 0 /\ team2_goals = 0
    /\ used_extra_time = FALSE
    /\ extra1 = 0 /\ extra2 = 0
    /\ decided_by = None
    /\ penalty_score = NoPenaltyScore
    /\ t1 = 0 /\ t2 = 0 /\ shots = 0
    /\ sim_result = <<>>
    /\ detailed = TRUE
    /\ current_minute = 0
    /\ goals_scored = <<0, 0>>
    /\ match_events = <<>>
    /\ goal_scorers = <<>>
    /\ ai_commentary = "empty"
    /\ match_preview = ""
    /\ StoreEmpty
    /\ OtherOff

\* lines 104-120: expectations, regulation goal counts, the timeline begins
DetailedRegulation ==
    /\ sim_pc = "start"
    /\ detailed
    /\ \E u1 \in DetailedUniform, u2 \in DetailedUniform,
          s1 \in DetailedGauss, s2 \in DetailedGauss :
          LET b1 == BaseGoals(team1_rating, team2_rating, u1)
              b2 == BaseGoals(team2_rating, team1_rating, u2)
          IN /\ base_goals_team1' = b1
             /\ base_goals_team2' = b2
             /\ team1_goals' = Min(RegulationCap, poisson_approx(b1, s1))
             /\ team2_goals' = Min(RegulationCap, poisson_approx(b2, s2))
    /\ current_minute' = 0
    /\ goals_scored' = <<0, 0>>
    /\ sim_pc' = "timeline"
    /\ UNCHANGED <<team1_rating, team2_rating, knockout, used_extra_time,
                   extra1, extra2, decided_by, penalty_score, t1, t2, shots,
                   sim_result, detailed, match_events, goal_scorers,
                   ai_commentary, match_preview>>
    /\ UNCHANGED storeVars
    /\ UNCHANGED otherVars

\* lines 122-177: one iteration of the timeline loop
TimelineStep ==
    /\ sim_pc = "timeline"
    /\ TimelineContinues(current_minute, goals_scored, team1_goals, team2_goals)
    /\ \E step \in MinuteSteps, attacking \in {Team1Country, Team2Country},
          event_roll \in EventRolls :
          LET minute == current_minute + step
              defending == IF attacking = Team1Country
                           THEN Team2Country ELSE Team1Country
              target == IF attacking = Team1Country
                        THEN team1_goals ELSE team2_goals
              type == EventType(event_roll, goals_scored[attacking], target)
              team == IF type = "save" THEN defending ELSE attacking
          IN IF minute > RegulationMinutes
             THEN \* break
                  /\ current_minute' = RegulationMinutes
                  /\ UNCHANGED <<goals_scored, match_events, goal_scorers>>
             ELSE /\ type # "none" => Len(match_events) < MaxEvents
                  /\ current_minute' = minute
                  /\ match_events' =
                         IF type = "none" THEN match_events
                         ELSE Append(match_events,
                                     [minute |-> minute, type |-> type,
                                      team |-> team])
                  /\ goal_scorers' =
                         IF type = "goal"
                         THEN Append(goal_scorers,
                                     [minute |-> minute, team |-> attacking])
                         ELSE goal_scorers
                  /\ goals_scored' =
                         IF type = "goal"
                         THEN [goals_scored EXCEPT ![attacking] = @ + 1]
                         ELSE goals_scored
    /\ UNCHANGED <<sim_pc, team1_rating, team2_rating, knockout,
                   base_goals_team1, base_goals_team2, team1_goals,
                   team2_goals, used_extra_time, extra1, extra2, decided_by,
                   penalty_score, t1, t2, shots, sim_result, detailed,
                   ai_commentary, match_preview>>
    /\ UNCHANGED storeVars
    /\ UNCHANGED otherVars

\* line 179, reached when the loop has ended
TimelineSort ==
    /\ sim_pc = "timeline"
    /\ ~TimelineContinues(current_minute, goals_scored, team1_goals, team2_goals)
    /\ match_events' = SortedByMinute(match_events)
    /\ sim_pc' = "knockout"
    /\ UNCHANGED <<team1_rating, team2_rating, knockout, base_goals_team1,
                   base_goals_team2, team1_goals, team2_goals,
                   used_extra_time, extra1, extra2, decided_by, penalty_score,
                   t1, t2, shots, sim_result, detailed, current_minute,
                   goals_scored, goal_scorers, ai_commentary, match_preview>>
    /\ UNCHANGED storeVars
    /\ UNCHANGED otherVars

\* line 197 false: no extra time
DetailedNoExtraTime ==
    /\ sim_pc = "knockout"
    /\ detailed
    /\ ~NeedsExtraTime(knockout, team1_goals, team2_goals)
    /\ sim_pc' = "commentary"
    /\ UNCHANGED <<team1_rating, team2_rating, knockout, base_goals_team1,
                   base_goals_team2, team1_goals, team2_goals,
                   used_extra_time, extra1, extra2, decided_by, penalty_score,
                   t1, t2, shots, sim_result>>
    /\ UNCHANGED detailVars
    /\ UNCHANGED storeVars
    /\ UNCHANGED otherVars

\* lines 197-248: extra time with its goal events, then the shootout and
\* its marker when the totals are still equal
DetailedExtraTime ==
    /\ sim_pc = "knockout"
    /\ detailed
    /\ NeedsExtraTime(knockout, team1_goals, team2_goals)
    /\ used_extra_time' = TRUE
    /\ \E s1 \in DetailedGauss, s2 \in DetailedGauss :
          LET e1 == Min(ExtraTimeCap,
                        poisson_approx(ExtraTimeLambda(base_goals_team1), s1))
              e2 == Min(ExtraTimeCap,
                        poisson_approx(ExtraTimeLambda(base_goals_team2), s2))
          IN \E m1 \in [1..e1 -> ExtraTimeMinutes],
                m2 \in [1..e2 -> ExtraTimeMinutes] :
                LET events == match_events
                                  \o ExtraTimeGoalEvents(Team1Country, m1)
                                  \o ExtraTimeGoalEvents(Team2Country, m2)
                IN /\ extra1' = e1
                   /\ extra2' = e2
                   /\ team1_goals' = team1_goals + e1
                   /\ team2_goals' = team2_goals + e2
                   /\ goal_scorers' = goal_scorers
                                  \o ExtraTimeGoalScorers(Team1Country, m1)
                                  \o ExtraTimeGoalScorers(Team2Country, m2)
                   /\ IF team1_goals' # team2_goals'
                      THEN /\ decided_by' = "extra_time"
                           /\ match_events' = events
                           /\ UNCHANGED <<penalty_score, t1, t2, shots>>
                      ELSE /\ decided_by' = "penalties"
                           /\ \E sc \in DetailedShootoutScores[
                                         <<team1_rating, team2_rating>>] :
                                 /\ t1' = sc[1]
                                 /\ t2' = sc[2]
                                 /\ penalty_score' = FormatPenaltyScore(sc[1], sc[2])
                           /\ shots' = InitialKicks
                           /\ match_events' = Append(events, PenaltiesMarker)
    /\ sim_pc' = "commentary"
    /\ UNCHANGED <<team1_rating, team2_rating, knockout, base_goals_team1,
                   base_goals_team2, sim_result, detailed, current_minute,
                   goals_scored, ai_commentary, match_preview>>
    /\ UNCHANGED storeVars
    /\ UNCHANGED otherVars

DetailedCommentaryUncaught ==
    /\ sim_pc = "commentary"
    /\ \E model_present \in BOOLEAN :
          \E preview \in GenerateOutcomes(model_present),
             live \in GenerateOutcomes(model_present) :
             /\ match_preview' = CommentaryResult(preview, live)[1]
             /\ ai_commentary' = CommentaryResult(preview, live)[2]
             /\ sim_pc' = IF "raises" \in {preview, live}
                          THEN "error" ELSE "return"
    /\ UNCHANGED <<team1_rating, team2_rating, knockout, base_goals_team1,
                   base_goals_team2, team1_goals, team2_goals,
                   used_extra_time, extra1, extra2, decided_by, penalty_score,
                   t1, t2, shots, sim_result, detailed, current_minute,
                   goals_scored, match_events, goal_scorers>>
    /\ UNCHANGED storeVars
    /\ UNCHANGED otherVars

\* lines 250-263: the preview and the live commentary, inside try / except
DetailedCommentary ==
    /\ sim_pc = "commentary"
    /\ \E model_present \in BOOLEAN :
          \E preview \in GenerateOutcomes(model_present),
             live \in GenerateOutcomes(model_present) :
             /\ match_preview' = CommentaryResult(preview, live)[1]
             /\ ai_commentary' = CommentaryResult(preview, live)[2]
    /\ sim_pc' = "return"
    /\ UNCHANGED <<team1_rating, team2_rating, knockout, base_goals_team1,
                   base_goals_team2, team1_goals, team2_goals,
                   used_extra_time, extra1, extra2, decided_by, penalty_score,
                   t1, t2, shots, sim_result, detailed, current_minute,
                   goals_scored, match_events, goal_scorers>>
    /\ UNCHANGED storeVars
    /\ UNCHANGED otherVars

\* lines 265-285
DetailedReturn ==
    /\ sim_pc = "return"
    /\ detailed
    /\ sim_result' = <<DetailedResultDict(
                           Team1Country, Team2Country, team1_goals,
                           team2_goals, decided_by, penalty_score,
                           used_extra_time, knockout, match_events,
                           goal_scorers, ai_commentary, match_preview)>>
    /\ sim_pc' = "done"
    /\ UNCHANGED <<team1_rating, team2_rating, knockout, base_goals_team1,
                   base_goals_team2, team1_goals, team2_goals,
                   used_extra_time, extra1, extra2, decided_by, penalty_score,
                   t1, t2, shots>>
    /\ UNCHANGED detailVars
    /\ UNCHANGED storeVars
    /\ UNCHANGED otherVars

DetailedNext ==
    \/ DetailedRegulation
    \/ TimelineStep
    \/ TimelineSort
    \/ DetailedNoExtraTime
    \/ DetailedExtraTime
    \/ DetailedCommentary
    \/ DetailedReturn

\* simulate_match in detailed mode over all its draws
DetailedSpec == DetailedInit /\ [][DetailedNext]_vars

--------------------------------------------------------------------------
(* The collections *)

MinTeams == 8
KnockoutRounds == {"quarterfinal", "semifinal", "final"}

\* countries are numbered in the order in which they first register
Countries == 1..MaxTeams

\* a team document, reduced to the field the bracket logic reads
TeamDoc(c) == [country |-> c]

\* a match document; result is <<>> (no 'result' key) or <<result>>, the
\* result reduced to its 'winner'
MatchDoc(id, round, team1, team2, now) ==
    [id |-> id, round |-> round, team1 |-> team1, team2 |-> team2,
     status |-> "scheduled", result |-> <<>>, created_at |-> now]

ByRound(ms, r) == {m \in ms : m.round = r}

\* all_completed(ms)
all_completed(ms) ==
    Cardinality(ms) > 0 /\ \A m \in ms : m.status = "completed"

\* the orders in which collection.stream() may yield the documents of S
\* (document ids are random, so is their order)
StreamOrders(S) ==
    {f \in [1..Cardinality(S) -> S] : \A i, j \in DOMAIN f : f[i] = f[j] => i = j}

\* the place sorted() gives the j-th element: after the elements with a
\* smaller key and after the earlier elements with the same key
PlaceByCreatedAt(seq, j) ==
    1 + Cardinality({k \in 1..Len(seq) :
                        \/ seq[k].created_at < seq[j].created_at
                        \/ /\ seq[k].created_at = seq[j].created_at
                           /\ k < j})

Unsorted(seq) == seq

\* sorted(ms, key=lambda m: m.get('created_at', '')): a stable sort
SortedByCreatedAt(seq) ==
    [i \in 1..Len(seq) |->
        seq[CHOOSE j \in 1..Len(seq) : PlaceByCreatedAt(seq, j) = i]]

\* (m.get('result') or {}).get('winner')
ResultWinner(m) == IF m.result = <<>> THEN NoCountry ELSE m.result[1].winner

\* _get_team_by_country: <<team>> or <<>> for None
GetTeamByCountry(ts, country) ==
    IF country = NoCountry THEN <<>>
    ELSE LET found == {i \in 1..Len(ts) : ts[i].country = country}
         IN IF found = {} THEN <<>>
            ELSE <<ts[CHOOSE i \in found : \A j \in found : i <= j]>>

RECURSIVE WinnersOf(_, _)
\* the loops at 362-366 and 382-386: the teams found for the winners
WinnersOf(ms, ts) ==
    IF ms = <<>> THEN <<>>
    ELSE GetTeamByCountry(ts, ResultWinner(Head(ms))) \o WinnersOf(Tail(ms), ts)

NoDelete(ms) == ms

\* "for match in stream(): delete": the collection is emptied
DeleteAll(ms) == {}

SemifinalNeededAlways(ms) == all_completed(ByRound(ms, "quarterfinal"))

\* line 359
SemifinalNeeded(ms) ==
    /\ all_completed(ByRound(ms, "quarterfinal"))
    /\ Cardinality(ByRound(ms, "semifinal")) = 0

FinalNeededOnceFinalExists(ms) ==
    /\ all_completed(ByRound(ms, "semifinal"))
    /\ Cardinality(ByRound(ms, "final")) > 0

\* line 379
FinalNeeded(ms) ==
    /\ all_completed(ByRound(ms, "semifinal"))
    /\ Cardinality(ByRound(ms, "final")) = 0

\* lines 360-376: the semifinals added, for one stream order of the snapshot
SemifinalFixtures(ts, order) ==
    LET winners == WinnersOf(SortedByCreatedAt(order), ts)
    IN IF Len(winners) >= 4
       THEN <<[round |-> "semifinal", team1 |-> winners[1], team2 |-> winners[2]],
              [round |-> "semifinal", team1 |-> winners[3], team2 |-> winners[4]]>>
       ELSE <<>>

\* lines 380-394: the final added
FinalFixtures(ts, order) ==
    LET winners == WinnersOf(SortedByCreatedAt(order), ts)
    IN IF Len(winners) >= 2
       THEN <<[round |-> "final", team1 |-> winners[1], team2 |-> winners[2]]>>
       ELSE <<>>

\* lines 359-376 for every order in which the quarterfinals may be streamed
SemifinalPlans(ms, ts) ==
    IF SemifinalNeeded(ms)
    THEN {SemifinalFixtures(ts, order) :
              order \in StreamOrders(ByRound(ms, "quarterfinal"))}
    ELSE {<<>>}

\* lines 379-394 for every order in which the semifinals may be streamed
FinalPlans(ms, ts) ==
    IF FinalNeeded(ms)
    THEN {FinalFixtures(ts, order) :
              order \in StreamOrders(ByRound(ms, "semifinal"))}
    ELSE {<<>>}

\* _progress_tournament_if_ready on the snapshot ms: the fixtures it adds,
\* in order
ProgressPlans(ms, ts) ==
    {sf \o fin : sf \in SemifinalPlans(ms, ts), fin \in FinalPlans(ms, ts)}

RECURSIVE AddFixtures(_, _, _)
\* db.collection('matches').add(..) for each fixture, one clock tick each
AddFixtures(ms, plan, now) ==
    IF plan = <<>> THEN ms
    ELSE AddFixtures(
             ms \cup {MatchDoc(now + 1, Head(plan).round, Head(plan).team1,
                               Head(plan).team2, now + 1)},
             Tail(plan), now + 1)

UpdateMatchStatusOnly(ms, id, winner) ==
    {IF m.id = id THEN [m EXCEPT !.status = "completed"] ELSE m : m \in ms}

\* match_ref.update({'result': .., 'status': 'completed', ..})
UpdateMatch(ms, id, winner) ==
    {IF m.id = id
     THEN [m EXCEPT !.result = <<[winner |-> winner]>>, !.status = "completed"]
     ELSE m : m \in ms}

\* the country behind a side returned by simulate_match
SideCountry(m, side) ==
    IF side = Team1Country THEN m.team1.country
    ELSE IF side = Team2Country THEN m.team2.country
    ELSE Draw

\* simulate_match(match_data['team1'], match_data['team2'], .., knockout)
MatchWinners(m) ==
    {SideCountry(m, side) : side \in WinnerSides[m.round \in KnockoutRounds]}

--------------------------------------------------------------------------
(* send_match_completion_email (email_service.py) *)

\* team1.get('email') / team2.get('email'): api_create_team stores a team
\* only with a non-empty email (455-458)
TeamsHaveEmail == TRUE

SendMatchCompletionEmailRaises(configured, has_email, penalties, smtp_ok) ==
    IF ~configured THEN "False"
    ELSE IF ~has_email THEN "False"
    ELSE IF penalties THEN "raised"
    ELSE IF ~smtp_ok THEN "raised"
    ELSE "True"

\* the value returned, "True" or "False"; every exception raised inside is
\* caught at 103 and turned into False
SendMatchCompletionEmail(configured, has_email, penalties, smtp_ok) ==
    IF ~configured THEN "False"                 \* 22-28: not configured
    ELSE IF ~has_email THEN "False"             \* 43-54: no address
    ELSE IF penalties THEN "False"              \* 68-70: penalty_score is a
                                                \* str, .get raises
    ELSE IF ~smtp_ok THEN "False"               \* 95-98: SMTP raises
    ELSE "True"

\* the values send_match_completion_email can return or "raised"
EmailResults ==
    {SendMatchCompletionEmail(configured, TeamsHaveEmail, penalties, smtp_ok) :
         configured \in BOOLEAN, penalties \in BOOLEAN, smtp_ok \in BOOLEAN}

\* send_match_completion_email(match_data, result, db) called with a result
\* simulate_match returned (680, 704). The guard at 68 reads
\* result['decided_by']; result['penalty_score'] is then the string built at
\* 244, never a dict, so penalty_score.get at 70 raises AttributeError.
SendNotification ==
    /\ sim_pc = "done"
    /\ notification = <<>>
    /\ \E configured \in BOOLEAN, has_email \in BOOLEAN, smtp_ok \in BOOLEAN :
          notification' =
              <<[configured |-> configured, has_email |-> has_email,
                 smtp_ok |-> smtp_ok,
                 returned |-> SendMatchCompletionEmail(
                                  configured, has_email,
                                  sim_result[1].decided_by = "penalties",
                                  smtp_ok)]>>
    /\ UNCHANGED <<squad_pc, squad, team_rating>>
    /\ UNCHANGED simVars
    /\ UNCHANGED storeVars

NotifyNext ==
    \/ SimNext
    \/ SendNotification

\* simulate_match, then the notification of its result
NotifySpec == SimInit /\ [][NotifyNext]_vars

--------------------------------------------------------------------------
(* Request handlers, one request at a time *)

\* api_create_team (447-484): 400 when a field is missing, 409 when the
\* country is registered, else the team is added. Countries are numbered by
\* first registration, so a request names a registered country or the next
\* new one; the stream order of 'teams' is taken to be registration order.
CreateTeam ==
    /\ \E country \in Countries, complete \in BOOLEAN :
          /\ country <= Len(teams) + 1
          /\ IF ~complete
             THEN UNCHANGED teams           \* 400
             ELSE IF \E i \in 1..Len(teams) : teams[i].country = country
             THEN UNCHANGED teams           \* 409
             ELSE teams' = Append(teams, TeamDoc(country))
    /\ UNCHANGED <<matches, clock, reqs, started>>
    /\ UNCHANGED simVars
    /\ UNCHANGED otherVars

\* api_create_tournament (715-736): 400 below 8 teams; otherwise every
\* match is deleted and the first 8 teams streamed are paired
CreateTournament ==
    /\ IF Len(teams) < MinTeams
       THEN UNCHANGED <<matches, clock>>         \* 400
       ELSE /\ clock + 4 <= MaxClock
            /\ matches' = AddFixtures(
                   DeleteAll(matches),
                   [i \in 1..4 |-> [round |-> "quarterfinal",
                                    team1 |-> teams[2 * i - 1],
                                    team2 |-> teams[2 * i]]],
                   clock)
            /\ clock' = clock + 4
    /\ UNCHANGED <<teams, reqs, started>>
    /\ UNCHANGED simVars
    /\ UNCHANGED otherVars

\* api_reset_tournament (738-745)
ResetTournament ==
    /\ matches' = DeleteAll(matches)
    /\ UNCHANGED <<teams, clock, reqs, started>>
    /\ UNCHANGED simVars
    /\ UNCHANGED otherVars

\* the body shared by simulate_match_route and play_match: read the match,
\* simulate it, store the result, send the notification, run the bracket
\* progression. send_match_completion_email (680, 704) writes nothing to
\* the store and its value is dropped; an exception raised by it would skip
\* the progression (except branch at 685, 709). Each add takes one tick of
\* the clock, so created_at grows strictly from one fixture to the next.
SimulateAndStore(match_id) ==
    /\ IF \A m \in matches : m.id # match_id
       THEN \* match_ref.get().to_dict() is None: the except branch answers
            UNCHANGED <<matches, clock>>
       ELSE LET match_data == CHOOSE m \in matches : m.id = match_id
            IN \E winner \in MatchWinners(match_data) :
                  LET updated == UpdateMatch(matches, match_id, winner)
                  IN \/ /\ "raised" \in EmailResults
                        /\ matches' = updated
                        /\ clock' = clock
                     \/ /\ EmailResults \ {"raised"} # {}
                        /\ \E plan \in ProgressPlans(updated, teams) :
                              /\ clock + Len(plan) <= MaxClock
                              /\ matches' = AddFixtures(updated, plan, clock)
                              /\ clock' = clock + Len(plan)
    /\ UNCHANGED <<teams, reqs, started>>
    /\ UNCHANGED simVars
    /\ UNCHANGED otherVars

\* the match ids a client may ask for: those stored, and one that is not
RequestIds == {m.id : m \in matches} \cup {0}

\* simulate_match_route (664-686)
SimulateMatchRoute == \E match_id \in RequestIds : SimulateAndStore(match_id)

\* play_match (688-710)
PlayMatch == \E match_id \in RequestIds : SimulateAndStore(match_id)

Init == SimOff /\ StoreEmpty /\ OtherOff

Next ==
    \/ CreateTeam
    \/ CreateTournament
    \/ ResetTournament
    \/ SimulateMatchRoute
    \/ PlayMatch

\* the API served one request at a time
Spec == Init /\ [][Next]_vars

\* the store after 8 teams were registered and api_create_tournament
\* (715-736) seeded the bracket from them
FreshBracket ==
    /\ teams = [i \in 1..MinTeams |-> TeamDoc(i)]
    /\ matches = AddFixtures(
                     {},
                     [i \in 1..4 |-> [round |-> "quarterfinal",
                                      team1 |-> teams[2 * i - 1],
                                      team2 |-> teams[2 * i]]],
                     0)
    /\ clock = 4
    /\ reqs = [p \in Workers |-> IdleRequest]
    /\ started = 0

TournamentInit == SimOff /\ OtherOff /\ FreshBracket

\* a simulate_match_route (664-686) or play_match (688-710) request for a
\* match that is scheduled
SimulateScheduled ==
    \E m \in matches :
        m.status = "scheduled" /\ SimulateAndStore(m.id)

TournamentNext == SimulateScheduled

\* a seeded bracket whose scheduled matches are simulated, one request at a
\* time, and every scheduled match eventually
TournamentSpec ==
    /\ TournamentInit
    /\ [][TournamentNext]_vars
    /\ WF_vars(SimulateScheduled)

--------------------------------------------------------------------------
(* simulate_match_route / play_match as interleaved steps: each Firestore  *)
(* call is one step, and two workers may serve requests at once            *)

\* lines 667-671 (691-695): read the match, simulate it
RequestBegin(p, match_id) ==
    /\ reqs[p].pc = "idle"
    /\ started < MaxRequests
    /\ started' = started + 1
    /\ IF \A m \in matches : m.id # match_id
       THEN reqs' = [reqs EXCEPT ![p] = IdleRequest]          \* except branch
       ELSE LET match_data == CHOOSE m \in matches : m.id = match_id
            IN \E winner \in MatchWinners(match_data) :
                  reqs' = [reqs EXCEPT ![p] =
                              [pc |-> "update", match_id |-> match_id,
                               winner |-> winner,
                               status_read |-> match_data.status,
                               email |-> "none", plan |-> <<>>]]
    /\ UNCHANGED <<teams, matches, clock>>
    /\ UNCHANGED simVars
    /\ UNCHANGED otherVars

\* simulate_match_route received by worker p
SimulateMatchRouteBegin ==
    \E p \in Workers : \E match_id \in RequestIds : RequestBegin(p, match_id)

\* play_match received by worker p
PlayMatchBegin ==
    \E p \in Workers : \E match_id \in RequestIds : RequestBegin(p, match_id)

\* lines 673-680 (697-704): match_ref.update, then
\* send_match_completion_email(match_data, result, db). Firestore refuses to
\* update a document that no longer exists, and the except branch answers.
\* The notification reads and writes nothing of the store; the handler drops
\* the value it returns, and an exception raised by the call would end the
\* request in the except branch at 685 (709). Every stored match is a
\* knockout fixture, and each winner can be returned with or without a
\* shootout.
RequestUpdate ==
    \E p \in Workers :
        /\ reqs[p].pc = "update"
        /\ IF \A m \in matches : m.id # reqs[p].match_id
           THEN /\ reqs' = [reqs EXCEPT ![p] = IdleRequest]
                /\ UNCHANGED matches
           ELSE /\ matches' = UpdateMatch(matches, reqs[p].match_id, reqs[p].winner)
                /\ \E configured \in BOOLEAN, penalties \in BOOLEAN,
                      smtp_ok \in BOOLEAN :
                      LET sent == SendMatchCompletionEmail(
                                      configured, TeamsHaveEmail, penalties, smtp_ok)
                      IN reqs' = [reqs EXCEPT ![p] =
                                     IF sent = "raised" THEN IdleRequest
                                     ELSE [reqs[p] EXCEPT !.pc = "progress",
                                                          !.email = sent]]
        /\ UNCHANGED <<teams, clock, started>>
        /\ UNCHANGED simVars
        /\ UNCHANGED otherVars

\* lines 343-352: _progress_tournament_if_ready reads all matches; what it
\* will add is decided by this snapshot (the value the notification
\* returned is gone by now)
RequestProgressRead ==
    \E p \in Workers :
        /\ reqs[p].pc = "progress"
        /\ \E plan \in ProgressPlans(matches, teams) :
              reqs' = [reqs EXCEPT ![p] =
                          IF plan = <<>> THEN IdleRequest
                          ELSE [reqs[p] EXCEPT !.pc = "add", !.plan = plan,
                                               !.email = "none"]]
        /\ UNCHANGED <<teams, matches, clock, started>>
        /\ UNCHANGED simVars
        /\ UNCHANGED otherVars

\* lines 370, 388: one db.collection('matches').add(..)
RequestAdd ==
    \E p \in Workers :
        /\ reqs[p].pc = "add"
        /\ clock < MaxClock
        /\ matches' = AddFixtures(matches, <<Head(reqs[p].plan)>>, clock)
        /\ clock' = clock + 1
        /\ reqs' = [reqs EXCEPT ![p] =
                       IF Tail(reqs[p].plan) = <<>> THEN IdleRequest
                       ELSE [reqs[p] EXCEPT !.plan = Tail(reqs[p].plan)]]
        /\ UNCHANGED <<teams, started>>
        /\ UNCHANGED simVars
        /\ UNCHANGED otherVars

ConcurrentNext ==
    \/ CreateTeam
    \/ CreateTournament
    \/ ResetTournament
    \/ SimulateMatchRouteBegin
    \/ PlayMatchBegin
    \/ RequestUpdate
    \/ RequestProgressRead
    \/ RequestAdd

\* the API served by two workers whose steps interleave
ConcurrentSpec == Init /\ [][ConcurrentNext]_vars

--------------------------------------------------------------------------
(* api_create_team as interleaved steps: the query at 458 and the add at   *)
(* 479 are two Firestore calls, and two workers may serve requests at once *)

\* lines 449-461: the payload is read, 400 when a field is missing, 409 when
\* the query for the country returns a document; otherwise the worker goes
\* on to build the squad and add the team
CreateTeamCheck ==
    \E p \in Workers : \E country \in Countries, complete \in BOOLEAN :
        /\ reqs[p].pc = "idle"
        /\ started < MaxRequests
        /\ started' = started + 1
        /\ country <= Len(teams) + 1
        /\ IF ~complete
           THEN reqs' = [reqs EXCEPT ![p] = IdleRequest]            \* 400
           ELSE IF \E i \in 1..Len(teams) : teams[i].country = country
           THEN reqs' = [reqs EXCEPT ![p] = IdleRequest]            \* 409
           ELSE reqs' = [reqs EXCEPT ![p] =
                            [pc |-> "add_team", country |-> country]]
        /\ UNCHANGED <<teams, matches, clock>>
        /\ UNCHANGED simVars
        /\ UNCHANGED otherVars

\* lines 462-480: db.collection('teams').add(team_data), 201. Nothing is
\* read again before the add, and the collection has no uniqueness rule.
CreateTeamAdd ==
    \E p \in Workers :
        /\ reqs[p].pc = "add_team"
        /\ teams' = Append(teams, TeamDoc(reqs[p].country))
        /\ reqs' = [reqs EXCEPT ![p] = IdleRequest]
        /\ UNCHANGED <<matches, clock, started>>
        /\ UNCHANGED simVars
        /\ UNCHANGED otherVars

RegistrationNext ==
    \/ CreateTeamCheck
    \/ CreateTeamAdd

\* registrations served by two workers whose steps interleave
RegistrationSpec == Init /\ [][RegistrationNext]_vars

\* C21: no two stored teams share a country, whatever sequence of
\* registration requests was served, two requests for the same country
\* whose check and insert steps interleave included.
C21_CountriesUnique ==
    \A i, j \in 1..Len(teams) :
        teams[i].country = teams[j].country => i = j

--------------------------------------------------------------------------
(* generate_player_ratings, generate_squad, calculate_team_rating *)

\* line 40
positions == <<"GK", "DF", "MD", "AT">>

\* lines 54-59, in the order the dict is iterated
positions_distribution ==
    <<[position |-> "GK", count |-> 3], [position |-> "DF", count |-> 8],
      [position |-> "MD", count |-> 8], [position |-> "AT", count |-> 4]>>

\* random.randint(70, 95) at 44 and random.randint(15, 65) at 46: the ends
OwnRatingLow == 70
OwnRatingHigh == 95
OtherRatingLow == 15
OtherRatingHigh == 65

\* players whose draws are explored: each of the first MaxVariedPlayers
\* players takes an end of the range at each of its four draws, and the
\* players after them take the ends the last of those players took
MaxVariedPlayers == 2

\* which end each call of random.randint takes, per position of the loop
RatingEnds == [1..Len(positions) -> BOOLEAN]

generate_player_ratings_one_range(natural_position, high) ==
    [k \in 1..Len(positions) |->
        IF high[k] THEN OwnRatingHigh ELSE OwnRatingLow]

\* lines 38-48; ratings[k] is the rating in positions[k]
generate_player_ratings(natural_position, high) ==
    [k \in 1..Len(positions) |->
        IF positions[k] = natural_position
        THEN IF high[k] THEN OwnRatingHigh ELSE OwnRatingLow
        ELSE IF high[k] THEN OtherRatingHigh ELSE OtherRatingLow]

\* player['ratings'][position]
RatingIn(player, position) ==
    player.ratings[CHOOSE k \in 1..Len(positions) : positions[k] = position]

\* the ends a player's draws took
EndsOf(player) ==
    [k \in 1..Len(positions) |->
        player.ratings[k] \in {OwnRatingHigh, OtherRatingHigh}]

PlayersAt(sq, position) ==
    Cardinality({i \in 1..Len(sq) : sq[i].natural_position = position})

\* the loops at 61-62: positions still short of their count
OpenPositions(sq) ==
    {k \in 1..Len(positions_distribution) :
        PlayersAt(sq, positions_distribution[k].position)
            < positions_distribution[k].count}

\* lines 63-69; the name is left out, and is_captain FALSE stands for a
\* dict without the key
Player(sq, position, high) ==
    [id |-> Len(sq) + 1,
     natural_position |-> position,
     ratings |-> generate_player_ratings(position, high),
     jersey_number |-> Len(sq) + 1,
     is_captain |-> FALSE]

RECURSIVE TotalRating(_)
\* lines 84-86
TotalRating(sq) ==
    IF sq = <<>> THEN 0
    ELSE RatingIn(Head(sq), Head(sq).natural_position) + TotalRating(Tail(sq))

calculate_team_rating_undivided(sq) ==
    IF sq = <<>> THEN 0
    ELSE 100 * TotalRating(sq)

\* lines 80-88, in hundredths: round(total_rating / len(squad), 2) is the
\* hundredth nearest to the quotient (a quotient of integers by 23 is never
\* half way between two hundredths, and the float quotient is far closer to
\* the exact one than to such a point)
calculate_team_rating(sq) ==
    IF sq = <<>> THEN 0
    ELSE (2 * 100 * TotalRating(sq) + Len(sq)) \div (2 * Len(sq))

\* either generate_squad() is called and calculate_team_rating on what it
\* returns (462-463), or calculate_team_rating([]) is called
SquadInit ==
    /\ squad_pc \in {"generate", "rate"}
    /\ squad = <<>>
    /\ team_rating = <<>>
    /\ notification = <<>>
    /\ SimOff
    /\ StoreEmpty

\* lines 61-70: one pass of the inner loop
GenerateSquadPlayer ==
    /\ squad_pc = "generate"
    /\ OpenPositions(squad) # {}
    /\ LET k == CHOOSE n \in OpenPositions(squad) :
                    \A o \in OpenPositions(squad) : n <= o
       IN \E high \in RatingEnds :
             /\ Len(squad) >= MaxVariedPlayers
                   => high = EndsOf(squad[MaxVariedPlayers])
             /\ squad' = Append(squad,
                                Player(squad, positions_distribution[k].position,
                                       high))
    /\ UNCHANGED <<squad_pc, team_rating, notification>>
    /\ UNCHANGED simVars
    /\ UNCHANGED storeVars

\* lines 72-76: the loops are over, a captain is drawn, the squad returned
GenerateSquadCaptain ==
    /\ squad_pc = "generate"
    /\ OpenPositions(squad) = {}
    /\ \E captain \in 1..Len(squad) :
          squad' = [squad EXCEPT ![captain].is_captain = TRUE]
    /\ squad_pc' = "returned"
    /\ UNCHANGED <<team_rating, notification>>
    /\ UNCHANGED simVars
    /\ UNCHANGED storeVars

\* lines 80-88
CalculateTeamRating ==
    /\ squad_pc \in {"returned", "rate"}
    /\ team_rating' = <<calculate_team_rating(squad)>>
    /\ squad_pc' = "done"
    /\ UNCHANGED <<squad, notification>>
    /\ UNCHANGED simVars
    /\ UNCHANGED storeVars

SquadNext ==
    \/ GenerateSquadPlayer
    \/ GenerateSquadCaptain
    \/ CalculateTeamRating

SquadSpec == SquadInit /\ [][SquadNext]_vars

\* C23: a generated squad has exactly 23 players, 3 of them with natural
\* position GK, 8 DF, 8 MD and 4 AT, exactly one of them the captain, and
\* every player is rated 70..95 in the natural position and 15..65 in each
\* of the three others.
C23_SquadShape ==
    squad_pc = "returned" =>
        /\ Len(squad) = 23
        /\ PlayersAt(squad, "GK") = 3
        /\ PlayersAt(squad, "DF") = 8
        /\ PlayersAt(squad, "MD") = 8
        /\ PlayersAt(squad, "AT") = 4
        /\ Cardinality({i \in 1..Len(squad) : squad[i].is_captain}) = 1
        /\ \A i \in 1..Len(squad) : \A k \in 1..Len(positions) :
               IF positions[k] = squad[i].natural_position
               THEN squad[i].ratings[k] \in 70..95
               ELSE squad[i].ratings[k] \in 15..65

\* a squad whose players took both ends of both ranges, captained by its
\* last player
C23_Witness ==
    /\ squad_pc = "returned"
    /\ squad[Len(squad)].is_captain
    /\ \E i, j \in 1..Len(squad) :
          /\ RatingIn(squad[i], squad[i].natural_position) = OwnRatingLow
          /\ RatingIn(squad[j], squad[j].natural_position) = OwnRatingHigh
          /\ OtherRatingLow \in {squad[i].ratings[k] : k \in 1..Len(positions)}
          /\ OtherRatingHigh \in {squad[i].ratings[k] : k \in 1..Len(positions)}

\* C24: calculate_team_rating returns exactly 0 for an empty squad, and for
\* a generated squad the mean of the players' ratings in their natural
\* positions (to the hundredth), a value never below 15 nor above 95.
C24_RatingIsMeanInRange ==
    squad_pc = "done" =>
        /\ squad = <<>> => team_rating[1] = 0
        /\ squad # <<>> =>
              LET total == TotalRating(squad)
                  n == Len(squad)
                  diff == team_rating[1] * n - 100 * total
              IN /\ 2 * diff <= n
                 /\ 2 * (0 - diff) <= n
                 /\ team_rating[1] >= 1500
                 /\ team_rating[1] <= 9500

\* a generated squad whose mean is not a whole number of hundredths
C24_Witness ==
    /\ squad_pc = "done"
    /\ Len(squad) = 23
    /\ team_rating[1] * Len(squad) # 100 * TotalRating(squad)
    /\ team_rating[1] > 100 * OwnRatingLow

--------------------------------------------------------------------------
(* Properties of simulate_match *)

Returned == sim_result[1]

\* C1: a knockout call never returns the winner "Draw": the winner is the
\* country of team1 or the country of team2, whatever was drawn.
C1_KnockoutWinnerNeverDraw ==
    (sim_pc = "done" /\ knockout) =>
        /\ Returned.winner # Draw
        /\ Returned.winner \in {Returned.team1, Returned.team2}

\* a knockout call that went to penalties and was won by team2
C1_Witness ==
    /\ sim_pc = "done"
    /\ knockout
    /\ Returned.penalty_score # NoPenaltyScore
    /\ Returned.winner = Team2Country

\* C8: extra time is entered exactly when the match is knockout and the
\* regulation goal counts are equal; then the result has the extra-time
\* flag, a winner other than Draw, and decided_by "extra_time" when the
\* totals differ after extra time and "penalties" when they are still
\* equal; otherwise the flag is false and no penalty score is recorded.
C8_ExtraTimeIffKnockoutTie ==
    /\ sim_pc \in {"initial", "sudden"} => (used_extra_time /\ knockout)
    /\ sim_pc = "done" =>
        LET reg1 == Returned.team1_goals - extra1
            reg2 == Returned.team2_goals - extra2
        IN /\ Returned.extra_time = (knockout /\ reg1 = reg2)
           /\ Returned.extra_time =>
                /\ Returned.winner # Draw
                /\ Returned.decided_by =
                       IF Returned.team1_goals # Returned.team2_goals
                       THEN "extra_time" ELSE "penalties"
           /\ ~Returned.extra_time =>
                /\ Returned.penalty_score = NoPenaltyScore
                /\ extra1 = 0 /\ extra2 = 0

\* a knockout tie settled by an extra-time goal
C8_Witness ==
    /\ sim_pc = "done"
    /\ Returned.extra_time
    /\ Returned.decided_by = "extra_time"
    /\ extra1 > extra2

\* C9: when a knockout match is level after extra time, the result holds a
\* penalty score "a-b" where a is team1's tally and b is team2's, a # b, the
\* winner is team1 iff a > b (team2 otherwise), and the recorded goal totals
\* are equal.
C9_PenaltyScoreDecides ==
    (sim_pc = "done" /\ Returned.decided_by = "penalties") =>
        LET parts == SplitDash(Returned.penalty_score)
        IN /\ Len(parts) = 2
           /\ Len(parts[1]) > 0 /\ Len(parts[2]) > 0
           /\ LET a == ParseInt(parts[1])
                  b == ParseInt(parts[2])
              IN /\ a = t1 /\ b = t2
                 /\ a # b
                 /\ Returned.winner =
                        IF a > b THEN Returned.team1 ELSE Returned.team2
           /\ Returned.team1_goals = Returned.team2_goals

\* a shootout that ran into two-digit tallies
C9_Witness ==
    /\ sim_pc = "done"
    /\ Returned.decided_by = "penalties"
    /\ t1 >= 10 /\ t2 >= 10

\* C10: under fairness of the draws, a shootout that has begun ends: the
\* sudden-death loop reaches a round after which the tallies differ and
\* simulate_match returns.
C10_ShootoutTerminates ==
    (decided_by = "penalties") ~> (sim_pc = "done" /\ t1 # t2)

\* a shootout decided in sudden death
C10_Witness ==
    /\ sim_pc = "done"
    /\ decided_by = "penalties"
    /\ shots = InitialKicks
    /\ (t1 > InitialKicks \/ t2 > InitialKicks)
    /\ t1 # t2

\* C11: in every shootout the initial phase is exactly 5 rounds, each with
\* one attempt per side, and is never cut short, even when one side can no
\* longer be caught; a sudden-death round is taken only after those 5
\* rounds and only while the tallies are equal, and it gives each side one
\* attempt (each tally grows by at most one).
C11_FiveKicksThenSuddenDeath ==
    /\ [](/\ sim_pc = "initial" => shots < InitialKicks
          /\ sim_pc = "sudden" => shots = InitialKicks
          /\ penalty_score # NoPenaltyScore => shots = InitialKicks
          /\ shots < InitialKicks => (t1 <= shots /\ t2 <= shots))
    /\ [][(t1' # t1 \/ t2' # t2 \/ shots' # shots) =>
            /\ t1' - t1 \in {0, 1}
            /\ t2' - t2 \in {0, 1}
            /\ IF shots < InitialKicks
               THEN shots' = shots + 1
               ELSE shots' = shots /\ t1 = t2]_vars

\* five rounds were taken although team2 could not catch up after the third
C11_Witness ==
    /\ sim_pc = "sudden"
    /\ shots = InitialKicks
    /\ t1 = InitialKicks
    /\ t2 = 0
\* C12: every returned result carries a decision mode that is one of
\* "regulation", "extra_time", "penalties", and a result settled by the
\* regulation goal counts (no extra time was played) carries "regulation".
C12_DecisionModeSet ==
    sim_pc = "done" =>
        /\ Returned.decided_by \in {"regulation", "extra_time", "penalties"}
        /\ ~Returned.extra_time => Returned.decided_by = "regulation"
\* C15: a non-knockout call returns the winner "Draw" iff the two goal
\* counts are equal, and otherwise the team with strictly more goals.
C15_NonKnockoutDrawIffLevel ==
    (sim_pc = "done" /\ ~knockout) =>
        /\ (Returned.winner = Draw)
               <=> (Returned.team1_goals = Returned.team2_goals)
        /\ Returned.team1_goals > Returned.team2_goals
               => Returned.winner = Returned.team1
        /\ Returned.team2_goals > Returned.team1_goals
               => Returned.winner = Returned.team2

\* a non-knockout call that ended level
C15_Witness ==
    /\ sim_pc = "done"
    /\ ~knockout
    /\ Returned.team1_goals = Returned.team2_goals
    /\ Returned.team1_goals > 0
    /\ Returned.winner = Draw

\* C16: each regulation goal count is an integer in 0..7 and each
\* extra-time goal count an integer in 0..3, for every draw (negative
\* Gaussian samples included); each recorded total is an integer in 0..10.
C16_GoalCountsInRange ==
    /\ extra1 \in 0..ExtraTimeCap
    /\ extra2 \in 0..ExtraTimeCap
    /\ (team1_goals - extra1) \in 0..RegulationCap
    /\ (team2_goals - extra2) \in 0..RegulationCap
    /\ sim_pc = "done" =>
          /\ Returned.team1_goals \in 0..(RegulationCap + ExtraTimeCap)
          /\ Returned.team2_goals \in 0..(RegulationCap + ExtraTimeCap)
          /\ Returned.team1_goals = team1_goals
          /\ Returned.team2_goals = team2_goals

\* team1 hit both caps; team2 hit the regulation cap and added nothing
C16_Witness ==
    /\ sim_pc = "done"
    /\ extra1 = ExtraTimeCap
    /\ Returned.team1_goals = RegulationCap + ExtraTimeCap
    /\ extra2 = 0
    /\ Returned.team2_goals = RegulationCap

\* the goal events of a team in a timeline
GoalEventsOf(events, team) ==
    Cardinality({i \in 1..Len(events) :
                     events[i].type = "goal" /\ events[i].team = team})

\* the goal_scorers entries of a team
ScorerEntriesOf(scorers, team) ==
    Cardinality({i \in 1..Len(scorers) : scorers[i].team = team})

\* C22: a non-detailed call returns an empty event sequence, even when a
\* shootout decided the match, and a goal-scorer sequence with exactly one
\* entry per regulation goal of each team, each entry carrying one of the
\* two teams and a minute between 5 and 85.
C22_BasicScorersPerRegulationGoal ==
    (sim_pc = "done" /\ ~detailed) =>
        /\ Returned.events = <<>>
        /\ ScorerEntriesOf(Returned.goal_scorers, Returned.team1)
               = Returned.team1_goals - extra1
        /\ ScorerEntriesOf(Returned.goal_scorers, Returned.team2)
               = Returned.team2_goals - extra2
        /\ \A i \in 1..Len(Returned.goal_scorers) :
               /\ Returned.goal_scorers[i].team
                      \in {Returned.team1, Returned.team2}
               /\ Returned.goal_scorers[i].minute >= ScorerMinuteLow
               /\ Returned.goal_scorers[i].minute <= ScorerMinuteHigh

\* a shootout after a scoring draw in which both teams scored in regulation
\* and one of them in extra time too
C22_Witness ==
    /\ sim_pc = "done"
    /\ ~detailed
    /\ Returned.decided_by = "penalties"
    /\ Returned.events = <<>>
    /\ extra1 > 0
    /\ ScorerEntriesOf(Returned.goal_scorers, Returned.team1) > 0
    /\ ScorerEntriesOf(Returned.goal_scorers, Returned.team2) > 0
    /\ \E i \in 1..Len(Returned.goal_scorers) :
           Returned.goal_scorers[i].minute = ScorerMinuteHigh

\* C25: in every result the number of goal-scorer entries of each team
\* equals that team's goal total in the final score (regulation plus extra
\* time), and in a detailed result the number of goal events of each team
\* in the timeline equals it as well.
C25_ScorersMatchFinalScore ==
    sim_pc = "done" =>
        /\ ScorerEntriesOf(Returned.goal_scorers, Returned.team1)
               = Returned.team1_goals
        /\ ScorerEntriesOf(Returned.goal_scorers, Returned.team2)
               = Returned.team2_goals
        /\ detailed =>
               /\ GoalEventsOf(Returned.events, Returned.team1)
                      = Returned.team1_goals
               /\ GoalEventsOf(Returned.events, Returned.team2)
                      = Returned.team2_goals

--------------------------------------------------------------------------
(* Properties of the detailed simulation *)

NonDecreasingMinutes(events) ==
    \A i \in 1..(Len(events) - 1) : events[i].minute <= events[i + 1].minute

\* C13: in the event sequence returned by a detailed simulation the minutes
\* never decrease from one event to the next, extra-time goal events and
\* the penalties marker included.
C13_EventMinutesNonDecreasing ==
    (sim_pc = "done" /\ detailed) => NonDecreasingMinutes(Returned.events)

\* C14: while the regulation timeline is built and when it is complete,
\* each team's goal tally in the timeline (the tally kept by the loop and
\* the goal events it appended) is at most the team's regulation goal count.
C14_NoGoalEventBeyondTarget ==
    sim_pc \in {"timeline", "knockout"} =>
        /\ goals_scored[Team1Country] <= team1_goals
        /\ goals_scored[Team2Country] <= team2_goals
        /\ GoalEventsOf(match_events, Team1Country) = goals_scored[Team1Country]
        /\ GoalEventsOf(match_events, Team2Country) = goals_scored[Team2Country]

\* the loop went on after team1 had reached its target
C14_Witness ==
    /\ sim_pc = "timeline"
    /\ team1_goals > 0
    /\ goals_scored[Team1Country] = team1_goals
    /\ goals_scored[Team2Country] < team2_goals
    /\ Len(match_events) > 0
    /\ current_minute > match_events[Len(match_events)].minute

\* C19: a detailed call returns a complete result whether the commentary
\* generator has no model, returns text or raises: the commentary step
\* always leads to the return, changes no simulation field, and the result
\* carries the score, winner, events and goal scorers computed before it.
C19_CommentaryNeverSurfaces ==
    /\ [](sim_pc \in {"start", "timeline", "knockout", "commentary",
                       "return", "done"})
    /\ []((sim_pc = "done" /\ detailed) =>
            /\ Returned.score = FormatPenaltyScore(team1_goals, team2_goals)
            /\ Returned.winner = Winner(Team1Country, Team2Country, team1_goals,
                                        team2_goals, penalty_score, knockout)
            /\ Returned.events = match_events
            /\ Returned.goal_scorers = goal_scorers
            /\ Returned.commentary \in {"generated", "fallback", "unavailable"}
            /\ Returned.match_preview \in {"", "generated", "fallback"})
    /\ [][sim_pc = "commentary" =>
            /\ sim_pc' = "return"
            /\ UNCHANGED <<team1_goals, team2_goals, used_extra_time, extra1,
                           extra2, decided_by, penalty_score, t1, t2,
                           goals_scored, match_events, goal_scorers>>]_vars

\* the preview was generated, the live commentary raised, and the result
\* was returned with its timeline
C19_Witness ==
    /\ sim_pc = "done"
    /\ detailed
    /\ Returned.match_preview = "generated"
    /\ Returned.commentary = "unavailable"
    /\ Len(Returned.events) > 0

--------------------------------------------------------------------------
(* Properties of the match store *)

Quarterfinals == ByRound(matches, "quarterfinal")
Semifinals == ByRound(matches, "semifinal")
Finals == ByRound(matches, "final")

RoundCompleted(ms) == ms # {} /\ \A m \in ms : m.status = "completed"

\* the k-th document of S in order of created_at
NthByCreatedAt(S, k) ==
    CHOOSE m \in S : Cardinality({x \in S : x.created_at < m.created_at}) = k - 1

NoRequestInFlight == \A p \in Workers : reqs[p].pc = "idle"

\* C2: once a match is completed with its result, no later
\* simulate_match_route or play_match request for it changes its status or
\* its result (and so its winner).
C2_MatchMutatedOnce ==
    [][\A m \in matches :
           m.status = "completed" =>
               \A n \in matches' :
                   n.id = m.id => (n.status = m.status /\ n.result = m.result)]_vars

\* C3: with requests served one at a time, after every request semifinals
\* exist iff quarterfinals exist and are all completed, and a final exists
\* iff semifinals exist and are all completed.
C3_RoundExistsIffPreviousCompleted ==
    /\ (Semifinals # {}) <=> RoundCompleted(Quarterfinals)
    /\ (Finals # {}) <=> RoundCompleted(Semifinals)

\* the final has just been scheduled
C3_Witness ==
    /\ Cardinality(Quarterfinals) = 4
    /\ Cardinality(Semifinals) = 2
    /\ \E f \in Finals : f.status = "scheduled"

\* C4: a request that creates the semifinals creates exactly two scheduled
\* fixtures, winner(QF1) v winner(QF2) and winner(QF3) v winner(QF4), with
\* QF1..QF4 the four completed quarterfinals in order of created_at; a
\* request that creates the final creates exactly one scheduled fixture,
\* winner(SF1) v winner(SF2), SF1 and SF2 in order of created_at.
C4_WinnersPairedInCreationOrder ==
    [][LET qfs == ByRound(matches', "quarterfinal")
           sfs == ByRound(matches', "semifinal")
           fins == ByRound(matches', "final")
           W(S, k) == ResultWinner(NthByCreatedAt(S, k))
       IN /\ (Semifinals = {} /\ sfs # {}) =>
                /\ Cardinality(qfs) = 4
                /\ RoundCompleted(qfs)
                /\ Cardinality(sfs) = 2
                /\ \A m \in sfs : m.status = "scheduled" /\ m.result = <<>>
                /\ {<<m.team1.country, m.team2.country>> : m \in sfs}
                       = {<<W(qfs, 1), W(qfs, 2)>>, <<W(qfs, 3), W(qfs, 4)>>}
          /\ (Finals = {} /\ fins # {}) =>
                /\ Cardinality(sfs) = 2
                /\ RoundCompleted(sfs)
                /\ Cardinality(fins) = 1
                /\ \A m \in fins :
                       /\ m.status = "scheduled" /\ m.result = <<>>
                       /\ m.team1.country = W(sfs, 1)
                       /\ m.team2.country = W(sfs, 2)]_vars

\* both rounds have been created from the winners of the round before
C4_Witness ==
    /\ Cardinality(Semifinals) = 2
    /\ \E f \in Finals :
          /\ f.status = "scheduled"
          /\ f.team1.country = ResultWinner(NthByCreatedAt(Semifinals, 1))
          /\ f.team2.country = ResultWinner(NthByCreatedAt(Semifinals, 2))
    /\ NthByCreatedAt(Semifinals, 2).team1.country
           = ResultWinner(NthByCreatedAt(Quarterfinals, 3))

\* C5: with requests served one at a time, running the progression again
\* once the next round exists adds nothing to it: a request made while
\* semifinals (a final) exist adds no semifinal (final), and the store never
\* holds more than 2 semifinals or more than 1 final.
C5_ProgressionIdempotent ==
    /\ [](Cardinality(Semifinals) <= 2 /\ Cardinality(Finals) <= 1)
    /\ [][/\ Semifinals # {} =>
                 {m.id : m \in ByRound(matches', "semifinal")}
                     \subseteq {m.id : m \in Semifinals}
          /\ Finals # {} =>
                 {m.id : m \in ByRound(matches', "final")}
                     \subseteq {m.id : m \in Finals}]_vars

\* the progression has run again after the final was created
C5_Witness ==
    /\ Cardinality(Semifinals) = 2
    /\ Cardinality(Finals) = 1
    /\ \A f \in Finals : f.status = "completed"

\* C6: when requests interleave, the next round is still created exactly
\* once: whenever no request is in flight, completed quarterfinals come
\* with exactly two semifinals and completed semifinals with exactly one
\* final, and there are never more.
C6_NextRoundCreatedOnce ==
    /\ Cardinality(Semifinals) <= 2
    /\ Cardinality(Finals) <= 1
    /\ NoRequestInFlight =>
          /\ RoundCompleted(Quarterfinals) => Cardinality(Semifinals) = 2
          /\ (Cardinality(Semifinals) = 2 /\ RoundCompleted(Semifinals))
                 => Cardinality(Finals) = 1

\* C7: of two interleaved requests that both read a match as scheduled, at
\* most one writes its result: a request that read the match as scheduled
\* leaves the stored document as it is when another request has completed
\* it in the meantime.
C7_OneResultPerMatch ==
    [][\A p \in Workers :
           (/\ reqs[p].pc = "update"
            /\ reqs[p].status_read = "scheduled"
            /\ reqs'[p].pc = "progress")
           => \A m \in matches :
                  (m.id = reqs[p].match_id /\ m.status = "completed")
                      => m \in matches']_vars

\* C17: create_tournament seeds a bracket only when exactly 8 teams are
\* registered, and then creates exactly 4 scheduled quarterfinals: a step
\* that stores a new quarterfinal is taken with 8 registered teams.
C17_BracketOnlyWithEightTeams ==
    [][(\E m \in ByRound(matches', "quarterfinal") :
            \A n \in matches : n.id # m.id)
       => /\ Len(teams) = MinTeams
          /\ Cardinality(ByRound(matches', "quarterfinal")) = 4
          /\ \A m \in matches' :
                 m.round = "quarterfinal" /\ m.status = "scheduled"]_vars

\* C20: in every state of the store, under any interleaving of requests, a
\* match has a stored result iff its status is completed.
C20_StatusAndResultTogether ==
    \A m \in matches :
        /\ m.status \in {"scheduled", "completed"}
        /\ (m.result # <<>>) <=> (m.status = "completed")

\* a completed match with its result beside a scheduled one without, while
\* another request is between its read and its update
C20_Witness ==
    /\ \E m \in matches : m.status = "completed" /\ m.result # <<>>
    /\ \E m \in matches : m.status = "scheduled" /\ m.result = <<>>
    /\ \E p \in Workers : reqs[p].pc = "update"

\* C18: whatever the notification does (sent, not configured, failed
\* inside), the match is stored as completed with its result and the
\* request goes on to the bracket progression: a request that updates its
\* match leaves it completed with a result and is then at the progression,
\* and a request at or past the progression finds its match, if still
\* stored, completed with a result.
C18_NotificationNeverBlocksCompletion ==
    /\ [](\A p \in Workers :
             reqs[p].pc \in {"progress", "add"} =>
                 \A m \in matches :
                     m.id = reqs[p].match_id =>
                         (m.status = "completed" /\ m.result # <<>>))
    /\ [][\A p \in Workers :
             (/\ reqs[p].pc = "update"
              /\ reqs'[p] # reqs[p]
              /\ \E m \in matches : m.id = reqs[p].match_id) =>
                 /\ reqs'[p].pc = "progress"
                 /\ reqs'[p].email \in {"True", "False"}
                 /\ \E m \in matches' :
                       /\ m.id = reqs[p].match_id
                       /\ m.status = "completed"
                       /\ m.result = <<[winner |-> reqs[p].winner]>>]_vars

\* after a notification that was not sent, the request is about to run the
\* progression, which will find four completed quarterfinals
C18_Witness ==
    \E p \in Workers :
        /\ reqs[p].pc = "progress"
        /\ reqs[p].email = "False"
        /\ SemifinalNeeded(matches)
        /\ \E m \in matches :
              m.id = reqs[p].match_id /\ m.status = "completed"

\* the countries a round's fixtures hold, one per slot
SlotCountries(ms) ==
    {<<m.id, 1, m.team1.country>> : m \in ms}
        \cup {<<m.id, 2, m.team2.country>> : m \in ms}

\* the recorded winners of a round
RecordedWinners(ms) == {ResultWinner(m) : m \in ms} \ {NoCountry}

\* C26: in every state of the store each semifinal team is the currently
\* recorded winner of a distinct quarterfinal and each final team the
\* recorded winner of a semifinal, whatever requests were served since the
\* fixture was created (re-simulating a completed quarterfinal included).
C26_NextRoundHoldsRecordedWinners ==
    /\ \A s \in SlotCountries(Semifinals) :
           /\ s[3] \in RecordedWinners(Quarterfinals)
           /\ \A o \in SlotCountries(Semifinals) : o[3] = s[3] => o = s
    /\ \A s \in SlotCountries(Finals) :
           /\ s[3] \in RecordedWinners(Semifinals)
           /\ \A o \in SlotCountries(Finals) : o[3] = s[3] => o = s

\* the bracket has been played to its end
TournamentComplete ==
    /\ Cardinality(Quarterfinals) = 4 /\ RoundCompleted(Quarterfinals)
    /\ Cardinality(Semifinals) = 2 /\ RoundCompleted(Semifinals)
    /\ Cardinality(Finals) = 1 /\ RoundCompleted(Finals)
    /\ \A f \in Finals :
           \E i \in 1..8 : ResultWinner(f) = teams[i].country

\* C27: from a bracket freshly created from 8 registered teams, with
\* requests served one at a time and every scheduled match eventually
\* simulated, the tournament eventually has 4 completed quarterfinals, 2
\* completed semifinals and 1 completed final won by one of the 8 teams,
\* and no round is ever fully completed without its next-round fixtures.
C27_TournamentCompletes ==
    /\ [](/\ RoundCompleted(Quarterfinals) => Cardinality(Semifinals) = 2
          /\ RoundCompleted(Semifinals) => Cardinality(Finals) = 1)
    /\ <>TournamentComplete

\* the final has been played
C27_Witness ==
    /\ TournamentComplete
    /\ Len(teams) = 8
    /\ clock = 7

\* C28: with email configured, at least one team address and a working
\* SMTP exchange, send_match_completion_email returns True for every result
\* simulate_match produces, results decided by penalties (whose penalty
\* score is the string "a-b") included.
C28_NotificationSentForEveryResult ==
    (/\ notification # <<>>
     /\ notification[1].configured
     /\ notification[1].has_email
     /\ notification[1].smtp_ok)
        => notification[1].returned = "True"

====
